---- MODULE Spec2Model ----
(***************************************************************************)
(* Model of the dictionary asset materializer, the tauri command           *)
(* ensure_dictionary_db of src-tauri/src/lib.rs.                           *)
(*                                                                         *)
(* The state is the filesystem (the destination file and the executable-   *)
(* relative candidate files), the bundled assets, and for every in-flight  *)
(* invocation of the command its local variables and its position in the   *)
(* function body.  Every filesystem access of the function is one step, so *)
(* that overlapping invocations interleave at exactly those points.        *)
(***************************************************************************)
EXTENDS Naturals, Sequences, FiniteSets

\* ------------------------------------------------------------------ bounds
\* Number of invocation slots (invocations that may be in flight at once).
NumCalls == 2
\* Total number of invocations of the command in one behaviour.
MaxInvocations == 3
\* Number of data chunks in the payload of a candidate's gzip stream.
PayloadLen == 2

Calls == 1..NumCalls

\* --------------------------------------------------------------- constants
\* db_path: app data dir joined with "dictionary.db".
DbPath == "app_data_dir/dictionary.db"

\* Mutant of asset_paths: the first two identifiers in the other order.
asset_paths_swapped ==
  << "_up_/public/dictionary.db.gz", "dictionary.db.gz", "public/dictionary.db.gz" >>

\* The bundled asset identifiers, in the order the code tries them.
asset_paths ==
  << "dictionary.db.gz", "_up_/public/dictionary.db.gz", "public/dictionary.db.gz" >>

\* The executable-relative paths, in the order the code tries them.
fs_paths ==
  << "exe_dir/../public/dictionary.db.gz",
     "exe_dir/../../public/dictionary.db.gz",
     "exe_dir/../../../public/dictionary.db.gz" >>

AssetPaths == { asset_paths[k] : k \in 1..Len(asset_paths) }
FsPaths == { fs_paths[k] : k \in 1..Len(fs_paths) }
\* Every path of the filesystem the function can name.
DiskPaths == FsPaths \cup {DbPath}

\* The version tag of the result.
Version == "20241115"

\* -------------------------------------------------------------- gzip model
\* A gzip stream is a header, the compressed payload and a trailer (CRC and
\* length).  The payload of the candidate at path p is PayloadLen chunks
\* tagged with p, so that the streams of two candidates never decompress to
\* the same bytes.
GzKinds == {"valid", "bad_header", "bad_trailer"}

Payload(p) == [ k \in 1..PayloadLen |-> <<p, k>> ]

GzBlob(p, kind) ==
  << (IF kind = "bad_header" THEN "garbage" ELSE "gzip_header") >>
  \o Payload(p)
  \o << (IF kind = "bad_trailer" THEN "crc_mismatch" ELSE "gzip_trailer") >>

\* One read of the GzDecoder over bytes, having consumed pos tokens: the next
\* decompressed chunk, the end of the stream, or a decoding error.  The header
\* is parsed by the first read; the trailer is verified once the payload has
\* been handed out.
GzRead(bytes, pos) ==
  LET at == IF pos = 0 THEN 2 ELSE pos + 1
  IN  IF pos = 0 /\ (Len(bytes) = 0 \/ bytes[1] # "gzip_header")
        THEN [kind |-> "err", pos |-> pos]
      ELSE IF at > Len(bytes)
        THEN [kind |-> "err", pos |-> pos]
      ELSE IF bytes[at] = "gzip_trailer"
        THEN [kind |-> "eof", pos |-> at]
      ELSE IF bytes[at] = "crc_mismatch"
        THEN [kind |-> "err", pos |-> at]
      ELSE [kind |-> "data", pos |-> at, chunk |-> bytes[at]]

\* A file's bytes after a write of chunk at offset off (0-based, in chunks):
\* a write past the end leaves a hole, a write inside overwrites in place.
Hole == <<"hole", 0>>

WriteAt(data, off, chunk) ==
  [ k \in 1..(IF off + 1 > Len(data) THEN off + 1 ELSE Len(data)) |->
      IF k = off + 1 THEN chunk
      ELSE IF k <= Len(data) THEN data[k]
      ELSE Hole ]

\* ------------------------------------------------------------------- files
NoFile == [exists |-> FALSE, data |-> <<>>]
FileOf(bytes) == [exists |-> TRUE, data |-> bytes]

\* Mutant of FileCreate: the file is opened without truncation, so that what
\* it holds is kept.
FileCreateKeep(f) == IF f.exists THEN f ELSE FileOf(<<>>)

\* File::create: the file exists afterwards and is truncated to length zero.
FileCreate(f) == FileOf(<<>>)

\* --------------------------------------------------------------- log lines
LogChecking == <<"[RUST] Checking for dictionary at:", DbPath>>
LogNotFoundDb == <<"[RUST] Dictionary DB not found, decompressing from assets...">>
LogTryingAsset(p) == <<"[RUST] Trying asset path:", p>>
LogFoundAsset(p) == <<"[RUST] Found via asset resolver:", p>>
LogNotFound(p) == <<"[RUST] Not found:", p>>
LogAssetFailed == <<"[RUST] Asset resolver failed, trying filesystem (dev mode)...">>
LogTryingFs(p) == <<"[RUST] Trying filesystem:", p>>
LogFoundFs(p) == <<"[RUST] Found via filesystem:", p>>
LogReadError == <<"[RUST] Error reading file:", "io error">>
LogNoCandidate == <<"[RUST ERROR] dictionary.db.gz not found in any location">>
LogLoaded(n) == <<"[RUST] Loaded bytes", n>>
LogDecompressing == <<"[RUST] Decompressing...">>
LogCreateError == <<"[RUST ERROR] Failed to create DB file:", "io error">>
LogCopyError == <<"[RUST ERROR] Failed to decompress:", "io error">>
LogDecompressed(n) == <<"[RUST] Successfully decompressed bytes", n>>
LogSaved == <<"[RUST] Dictionary DB saved to:", DbPath>>
LogCached == <<"[RUST] Dictionary DB already exists, using cached version">>
LogReady == <<"[RUST] Dictionary ready">>

\* ----------------------------------------------------------------- results
NoResult == [tag |-> "None"]
Ok(info) == [tag |-> "Ok", info |-> info]
Err(msg) == [tag |-> "Err", err |-> msg]

\* Mutant of DictionaryInfo: the path is left empty.
DictionaryInfoEmptyPath(lg) ==
  [version |-> Version, path |-> "", exists |-> TRUE, logs |-> lg]

DictionaryInfo(lg) ==
  [version |-> Version, path |-> DbPath, exists |-> TRUE, logs |-> lg]

ErrDataDir == Err(<<"Failed to get app data dir:", "error">>)
\* Mutant of ErrNoCandidate: the trace is serialized without its last line.
ErrNoCandidateStale(lg) == Err(<<"LOGS:", SubSeq(lg, 1, Len(lg) - 1)>>)

ErrNoCandidate(lg) == Err(<<"LOGS:", lg>>)
ErrCreate == Err(<<"Failed to create DB file:", "io error">>)
ErrCopy == Err(<<"Failed to decompress DB:", "io error">>)

None == [some |-> FALSE, bytes |-> <<>>]
Some(b) == [some |-> TRUE, bytes |-> b]

\* ------------------------------------------------------------------- state
VARIABLES
  bundle,       \* the bundled assets: asset path -> [exists, data]
  disk,         \* the filesystem: path -> [exists, data]
  exe_dir,      \* whether current_exe() has a parent directory
  data_dir,     \* whether app_data_dir() resolves
  call_no,      \* per call: the number of the invocation (1 is the first)
  ncalls,       \* invocations made so far
  pc,           \* per call: position in ensure_dictionary_db
  logs,         \* per call: the local logs vector
  exists,       \* per call: the local exists
  idx,          \* per call: loop index over asset_paths / fs_paths
  asset_bytes,  \* per call: the local asset_bytes (Option)
  pos,          \* per call: tokens the decoder has consumed
  off,          \* per call: offset of output_file, in chunks
  result,       \* per call: the value last returned to the caller
  printed,      \* per call: the lines the call wrote to stdout
  ops,          \* per call: the asset and filesystem operations it performed
  decompressed, \* some io::copy of a call has returned Ok
  copy_failed   \* some io::copy of a call has returned Err

\* The environment: nothing in the function assigns to it.
envvars == <<bundle, exe_dir, data_dir>>

vars == <<bundle, disk, exe_dir, data_dir, call_no, ncalls, pc, logs, exists,
          idx, asset_bytes, pos, off, result, printed, ops, decompressed,
          copy_failed>>

\* -------------------------------------------------------------------- Init
\* The environment of a run: whether the app data dir resolves, the bundled
\* assets in A, whether the executable's directory is known, the executable-
\* relative files in F, and the kind of gzip stream the candidates hold.  The
\* destination file is absent (a fresh data directory).
Env(d, kind, A, F, e) ==
  /\ data_dir = d
  /\ bundle = [ p \in AssetPaths |->
                  IF p \in A THEN FileOf(GzBlob(p, kind)) ELSE NoFile ]
  /\ disk = [ p \in DiskPaths |->
                IF p \in F THEN FileOf(GzBlob(p, kind)) ELSE NoFile ]
  /\ exe_dir = e

\* No invocation has been made.
InitCalls ==
  /\ ncalls = 0
  /\ call_no = [ c \in Calls |-> 0 ]
  /\ pc = [ c \in Calls |-> "idle" ]
  /\ logs = [ c \in Calls |-> <<>> ]
  /\ exists = [ c \in Calls |-> FALSE ]
  /\ idx = [ c \in Calls |-> 1 ]
  /\ asset_bytes = [ c \in Calls |-> None ]
  /\ pos = [ c \in Calls |-> 0 ]
  /\ off = [ c \in Calls |-> 0 ]
  /\ result = [ c \in Calls |-> NoResult ]
  /\ printed = [ c \in Calls |-> <<>> ]
  /\ ops = [ c \in Calls |-> <<>> ]
  /\ decompressed = FALSE
  /\ copy_failed = FALSE

\* Every environment.  The files below an unknown executable directory and
\* the candidates of an unresolvable data directory are never looked at, and
\* are left out.
Init ==
  /\ \E d \in BOOLEAN, kind \in GzKinds, A \in SUBSET AssetPaths,
        F \in SUBSET FsPaths, e \in BOOLEAN :
       /\ (~e => F = {})
       /\ (~d => A = {} /\ F = {} /\ ~e)
       /\ (A = {} /\ F = {} => kind = "valid")
       /\ Env(d, kind, A, F, e)
  /\ InitCalls

\* The environments of the overlapping specification: at most the first
\* bundled asset and the first executable-relative file.
InitConc ==
  /\ \E kind \in GzKinds, A \in SUBSET {asset_paths[1]},
        F \in SUBSET {fs_paths[1]} :
       /\ (A = {} /\ F = {} => kind = "valid")
       /\ Env(TRUE, kind, A, F, TRUE)
  /\ InitCalls

\* ----------------------------------------------------------------- helpers
\* Mutant of PathExists: the check never finds a file.
PathNeverExists(p) == FALSE

\* Mutant of PathExists: an empty file counts as missing.
PathExistsNonEmpty(p) == disk[p].exists /\ disk[p].data # <<>>

\* Path::exists on the filesystem.
PathExists(p) == disk[p].exists

\* AssetResolver::get: Some(asset) when the bundle holds the path.
AssetGet(p) == IF bundle[p].exists THEN Some(bundle[p].data) ELSE None

\* Mutant of CreateTarget: the output is created at the first executable-
\* relative candidate path.
CreateTargetCandidate == fs_paths[1]

\* The path File::create is called with.
CreateTarget == DbPath

\* The lines println! writes for a logs vector: every line, in order.
PrintAll(lg) == lg

\* The caller receives r and the invocation is over.
Return(c, r) ==
  /\ result' = [result EXCEPT ![c] = r]
  /\ pc' = [pc EXCEPT ![c] = "idle"]

\* Mutant of Fail: the error is logged and swallowed, and the function goes
\* on to its end.
FailSwallowed(c, line, r) ==
  /\ logs' = [logs EXCEPT ![c] = Append(@, line)]
  /\ result' = result
  /\ pc' = [pc EXCEPT ![c] = "finish"]

\* .map_err(|e| { logs.push(line); message })?: the closure pushes the error
\* line to logs and the function returns the plain message.
Fail(c, line, r) ==
  /\ logs' = [logs EXCEPT ![c] = Append(@, line)]
  /\ Return(c, r)

\* ----------------------------------------------------------------- actions
\* Lines 29-37: a new invocation; resolve the app data dir and log the path.
Invoke(c) ==
  /\ pc[c] = "idle"
  /\ ncalls < MaxInvocations
  /\ ncalls' = ncalls + 1
  /\ call_no' = [call_no EXCEPT ![c] = ncalls + 1]
  /\ exists' = [exists EXCEPT ![c] = FALSE]
  /\ idx' = [idx EXCEPT ![c] = 1]
  /\ asset_bytes' = [asset_bytes EXCEPT ![c] = None]
  /\ pos' = [pos EXCEPT ![c] = 0]
  /\ off' = [off EXCEPT ![c] = 0]
  /\ printed' = [printed EXCEPT ![c] = <<>>]
  /\ ops' = [ops EXCEPT ![c] = <<>>]
  /\ IF data_dir
       THEN /\ logs' = [logs EXCEPT ![c] = <<LogChecking>>]
            /\ pc' = [pc EXCEPT ![c] = "check"]
            /\ result' = [result EXCEPT ![c] = NoResult]
       ELSE /\ logs' = [logs EXCEPT ![c] = <<>>]
            /\ Return(c, ErrDataDir)
  /\ UNCHANGED <<envvars, disk, decompressed, copy_failed>>

\* Lines 39-42 and 128-130: the existence check of db_path and the branch.
CheckExists(c) ==
  /\ pc[c] = "check"
  /\ exists' = [exists EXCEPT ![c] = PathExists(DbPath)]
  /\ ops' = [ops EXCEPT ![c] = Append(@, <<"exists", DbPath>>)]
  /\ IF PathExists(DbPath)
       THEN /\ logs' = [logs EXCEPT ![c] = Append(@, LogCached)]
            /\ pc' = [pc EXCEPT ![c] = "finish"]
       ELSE /\ logs' = [logs EXCEPT ![c] = Append(@, LogNotFoundDb)]
            /\ pc' = [pc EXCEPT ![c] = "assets"]
  /\ UNCHANGED <<envvars, disk, call_no, ncalls, idx, asset_bytes, pos, off,
                 result, printed, decompressed, copy_failed>>

\* Lines 54-74: one iteration of the loop over asset_paths.  The loop ends at
\* the first asset that resolves or after the last path; the filesystem loop
\* is entered only when asset_bytes is still None and exe_dir is known.
TryAsset(c) ==
  /\ pc[c] = "assets"
  /\ LET p == asset_paths[idx[c]]
         a == AssetGet(p)
         last == idx[c] = Len(asset_paths)
     IN  /\ ops' = [ops EXCEPT ![c] = Append(@, <<"asset_get", p>>)]
         /\ IF a.some
              THEN /\ logs' = [logs EXCEPT ![c] =
                                 @ \o <<LogTryingAsset(p), LogFoundAsset(p)>>]
                   /\ asset_bytes' = [asset_bytes EXCEPT ![c] = Some(a.bytes)]
                   /\ idx' = idx
                   /\ pc' = [pc EXCEPT ![c] = "resolve"]
              ELSE /\ asset_bytes' = asset_bytes
                   /\ IF ~last
                        THEN /\ logs' = [logs EXCEPT ![c] =
                                   @ \o <<LogTryingAsset(p), LogNotFound(p)>>]
                             /\ idx' = [idx EXCEPT ![c] = @ + 1]
                             /\ pc' = pc
                        ELSE /\ logs' = [logs EXCEPT ![c] =
                                   @ \o <<LogTryingAsset(p), LogNotFound(p),
                                          LogAssetFailed>>]
                             /\ idx' = [idx EXCEPT ![c] = 1]
                             /\ pc' = [pc EXCEPT ![c] =
                                         IF exe_dir THEN "fs" ELSE "resolve"]
  /\ UNCHANGED <<envvars, disk, call_no, ncalls, exists, pos, off, result,
                 printed, decompressed, copy_failed>>

\* Lines 81-97: one iteration of the loop over fs_paths.  A file that exists
\* is read; a failed read is logged and the loop goes on to the next path.
TryFs(c) ==
  /\ pc[c] = "fs"
  /\ LET p == fs_paths[idx[c]]
         next == IF idx[c] = Len(fs_paths) THEN "resolve" ELSE "fs"
     IN  IF PathExists(p)
           THEN \E read_ok \in BOOLEAN :
                  /\ ops' = [ops EXCEPT ![c] =
                               @ \o << <<"exists", p>>, <<"read", p>> >>]
                  /\ IF read_ok
                       THEN /\ logs' = [logs EXCEPT ![c] =
                                   @ \o <<LogTryingFs(p), LogFoundFs(p)>>]
                            /\ asset_bytes' = [asset_bytes EXCEPT ![c] =
                                                 Some(disk[p].data)]
                            /\ idx' = idx
                            /\ pc' = [pc EXCEPT ![c] = "resolve"]
                       ELSE /\ logs' = [logs EXCEPT ![c] =
                                   @ \o <<LogTryingFs(p), LogReadError>>]
                            /\ asset_bytes' = asset_bytes
                            /\ idx' = [idx EXCEPT ![c] = @ + 1]
                            /\ pc' = [pc EXCEPT ![c] = next]
           ELSE /\ ops' = [ops EXCEPT ![c] = Append(@, <<"exists", p>>)]
                /\ logs' = [logs EXCEPT ![c] =
                              @ \o <<LogTryingFs(p), LogNotFound(p)>>]
                /\ asset_bytes' = asset_bytes
                /\ idx' = [idx EXCEPT ![c] = @ + 1]
                /\ pc' = [pc EXCEPT ![c] = next]
  /\ UNCHANGED <<envvars, disk, call_no, ncalls, exists, pos, off, result,
                 printed, decompressed, copy_failed>>

\* Lines 101-113: asset_bytes.ok_or_else(...)?: without a candidate the logs
\* are printed and returned inside the error; with one the decoder is set up.
Resolve(c) ==
  /\ pc[c] = "resolve"
  /\ IF asset_bytes[c].some
       THEN /\ logs' = [logs EXCEPT ![c] =
                   @ \o <<LogLoaded(Len(asset_bytes[c].bytes)), LogDecompressing>>]
            /\ pc' = [pc EXCEPT ![c] = "create"]
            /\ UNCHANGED <<result, printed>>
       ELSE /\ logs' = [logs EXCEPT ![c] = Append(@, LogNoCandidate)]
            /\ printed' = [printed EXCEPT ![c] = PrintAll(logs'[c])]
            /\ Return(c, ErrNoCandidate(logs'[c]))
  /\ UNCHANGED <<envvars, disk, call_no, ncalls, exists, idx, asset_bytes, pos,
                 off, ops, decompressed, copy_failed>>

\* Lines 114-118: File::create(&db_path).  On failure the error line is pushed
\* to logs, and the plain message is returned.
CreateFile(c) ==
  /\ pc[c] = "create"
  /\ \E create_ok \in BOOLEAN :
       IF create_ok
         THEN /\ disk' = [disk EXCEPT ![CreateTarget] = FileCreate(@)]
              /\ ops' = [ops EXCEPT ![c] = Append(@, <<"create", CreateTarget>>)]
              /\ pc' = [pc EXCEPT ![c] = "copy"]
              /\ UNCHANGED <<logs, result>>
         ELSE /\ Fail(c, LogCreateError, ErrCreate)
              /\ UNCHANGED <<disk, ops>>
  /\ UNCHANGED <<envvars, call_no, ncalls, exists, idx, asset_bytes, pos, off,
                 printed, decompressed, copy_failed>>

\* Lines 120-127: one round of std::io::copy(&mut decoder, &mut output_file):
\* a read of the decoder, then a write of what it produced at the file's
\* offset.  A decoding error or a failed write ends the call with the plain
\* message; the end of the stream ends the copy.
CopyStep(c) ==
  /\ pc[c] = "copy"
  /\ LET r == GzRead(asset_bytes[c].bytes, pos[c])
     IN  \E write_ok \in BOOLEAN :
           IF r.kind = "data" /\ write_ok
             THEN /\ disk' = [disk EXCEPT ![CreateTarget] =
                                FileOf(WriteAt(@.data, off[c], r.chunk))]
                  /\ ops' = [ops EXCEPT ![c] = Append(@, <<"write", CreateTarget>>)]
                  /\ pos' = [pos EXCEPT ![c] = r.pos]
                  /\ off' = [off EXCEPT ![c] = @ + 1]
                  /\ UNCHANGED <<pc, logs, result, decompressed, copy_failed>>
           ELSE IF r.kind = "eof" /\ write_ok
             THEN /\ logs' = [logs EXCEPT ![c] =
                                @ \o <<LogDecompressed(off[c]), LogSaved>>]
                  /\ pos' = [pos EXCEPT ![c] = r.pos]
                  /\ pc' = [pc EXCEPT ![c] = "finish"]
                  /\ decompressed' = TRUE
                  /\ UNCHANGED <<disk, ops, off, result, copy_failed>>
           ELSE /\ r.kind \in {"err", "data"}
                /\ Fail(c, LogCopyError, ErrCopy)
                /\ copy_failed' = TRUE
                /\ UNCHANGED <<disk, ops, pos, off, decompressed>>
  /\ UNCHANGED <<envvars, call_no, ncalls, exists, idx, asset_bytes, printed>>

\* Lines 132-144: the last log line, the logs written to stdout, and Ok.
Finish(c) ==
  /\ pc[c] = "finish"
  /\ logs' = [logs EXCEPT ![c] = Append(@, LogReady)]
  /\ printed' = [printed EXCEPT ![c] = PrintAll(logs'[c])]
  /\ Return(c, Ok(DictionaryInfo(logs'[c])))
  /\ UNCHANGED <<envvars, disk, call_no, ncalls, exists, idx, asset_bytes, pos,
                 off, ops, decompressed, copy_failed>>

Step(c) ==
  \/ CheckExists(c)
  \/ TryAsset(c)
  \/ TryFs(c)
  \/ Resolve(c)
  \/ CreateFile(c)
  \/ CopyStep(c)
  \/ Finish(c)

AllIdle == \A c \in Calls : pc[c] = "idle"

\* Invocations one after another: a call starts when no other is in flight.
InvokeAlone(c) == AllIdle /\ Invoke(c)

Next == \E c \in Calls : InvokeAlone(c) \/ Step(c)

Spec == Init /\ [][Next]_vars

\* Overlapping invocations: the command is async, and nothing keeps the
\* frontend from invoking it again while a call is in flight.
NextConc == \E c \in Calls : Invoke(c) \/ Step(c)

SpecConc == InitConc /\ [][NextConc]_vars

\* ================================================================== claims
\* The call in slot c has returned to its caller.
Returned(c) == pc[c] = "idle" /\ result[c].tag # "None"

\* The call in slot c has returned and no call has been invoked since.
LatestReturned(c) == Returned(c) /\ call_no[c] = ncalls

\* The call in slot c got past the resolution of the data directory.
PastDataDir(c) == call_no[c] > 0 /\ Len(logs[c]) > 0

\* The operations of kinds K the call in slot c performed, in order.
OpsOf(c, K) == SelectSeq(ops[c], LAMBDA o : o[1] \in K)

WriteKinds == {"create", "write"}
LookupKinds == {"asset_get", "read", "exists"}

\* What a valid stream of the candidate at p decompresses to.
Decompressed(p) == [ k \in 1..PayloadLen |-> <<p, k>> ]

IsOkResult(r) == r.tag = "Ok"
IsErrResult(r) == r.tag = "Err"

\* ---------------------------------------------------------------------- C1
\* C1 (as claimed): a call made while the destination file exists performs no
\* filesystem write, returns Ok with exists = true and path = the destination,
\* and its logs hold exactly one trace line.
C1_FastPathOneLine ==
  \A c \in Calls :
    (Returned(c) /\ exists[c]) =>
      /\ IsOkResult(result[c])
      /\ result[c].info.exists = TRUE
      /\ result[c].info.path = "app_data_dir/dictionary.db"
      /\ Len(result[c].info.logs) = 1
      /\ OpsOf(c, WriteKinds) = <<>>

\* C1 (amended): a call made while the destination file exists performs no
\* filesystem write, returns Ok with exists = true and path = the destination,
\* and its logs hold exactly three trace lines: the path being checked, the
\* cache hit, and the final "ready" line.
C1_FastPathThreeLines ==
  \A c \in Calls :
    (Returned(c) /\ exists[c]) =>
      /\ IsOkResult(result[c])
      /\ result[c].info.exists = TRUE
      /\ result[c].info.path = "app_data_dir/dictionary.db"
      /\ Len(result[c].info.logs) = 3
      /\ result[c].info.logs[1][1] = "[RUST] Checking for dictionary at:"
      /\ result[c].info.logs[2][1] =
           "[RUST] Dictionary DB already exists, using cached version"
      /\ result[c].info.logs[3][1] = "[RUST] Dictionary ready"
      /\ OpsOf(c, WriteKinds) = <<>>
      /\ ops[c] = << <<"exists", "app_data_dir/dictionary.db">> >>

\* A call that found the destination file present has returned.
C1_Witness ==
  \E c \in Calls :
    /\ Returned(c) /\ exists[c] /\ IsOkResult(result[c])
    /\ disk[DbPath].exists

\* ---------------------------------------------------------------------- C2
\* C2: after a call that found the destination absent, materialized it from a
\* valid candidate and returned Ok, every later call (invocations one after
\* another) takes the fast path: it looks up and reads no candidate, creates
\* and writes nothing, returns Ok with the same path, and the destination file
\* still holds exactly what the first call decompressed.
C2_SecondCallFastPath ==
  \A c, d \in Calls :
    ( /\ Returned(c) /\ ~exists[c] /\ IsOkResult(result[c])
      /\ Returned(d) /\ call_no[d] > call_no[c] ) =>
      /\ exists[d]
      /\ IsOkResult(result[d])
      /\ result[d].info.path = result[c].info.path
      /\ ops[d] = << <<"exists", "app_data_dir/dictionary.db">> >>
      /\ asset_bytes[c].some
      /\ disk[DbPath].exists
      /\ Len(disk[DbPath].data) = Len(asset_bytes[c].bytes) - 2
      /\ \A k \in 1..Len(disk[DbPath].data) :
           disk[DbPath].data[k] = asset_bytes[c].bytes[k + 1]

\* A first call materialized the file and a later call has returned.
C2_Witness ==
  \E c, d \in Calls :
    /\ Returned(c) /\ ~exists[c] /\ IsOkResult(result[c])
    /\ Returned(d) /\ call_no[d] > call_no[c]
    /\ Len(disk[DbPath].data) = PayloadLen

\* ---------------------------------------------------------------------- C3
\* The call in slot c found the destination absent, searched, and no candidate
\* resolved: no bundled asset, and no executable-relative file it could read.
NoCandidate(c) ==
  /\ PastDataDir(c) /\ ~exists[c] /\ ~asset_bytes[c].some
  /\ \A p \in AssetPaths : ~bundle[p].exists

\* C3 (as claimed): when the destination is absent and no candidate resolves,
\* the call returns an absent result (exists = false, empty path, empty
\* version) without an error, and the destination is still absent.
C3_AbsentResult ==
  \A c \in Calls :
    (LatestReturned(c) /\ NoCandidate(c)) =>
      /\ IsOkResult(result[c])
      /\ result[c].info.exists = FALSE
      /\ result[c].info.path = ""
      /\ result[c].info.version = ""
      /\ ~disk[DbPath].exists

\* C3 (amended): when the destination is absent and no candidate resolves, the
\* call returns an error, "LOGS:" followed by the whole trace (whose last line
\* says that no candidate was found), prints the trace, creates and writes
\* nothing, and the destination is still absent.
C3_NoCandidateError ==
  \A c \in Calls :
    (LatestReturned(c) /\ NoCandidate(c)) =>
      /\ IsErrResult(result[c])
      /\ result[c].err[1] = "LOGS:"
      /\ result[c].err[2] = logs[c]
      /\ logs[c][Len(logs[c])][1] =
           "[RUST ERROR] dictionary.db.gz not found in any location"
      /\ printed[c] = logs[c]
      /\ OpsOf(c, WriteKinds) = <<>>
      /\ ~disk[DbPath].exists

\* A call has returned from a search in which no candidate resolved.
C3_Witness ==
  \E c \in Calls :
    /\ LatestReturned(c) /\ NoCandidate(c)
    /\ IsErrResult(result[c])

\* ---------------------------------------------------------------------- C4
\* The documented candidate order: the bundled asset identifiers, then the
\* executable-relative paths.
DocumentedOrder ==
  << "dictionary.db.gz",
     "_up_/public/dictionary.db.gz",
     "public/dictionary.db.gz",
     "exe_dir/../public/dictionary.db.gz",
     "exe_dir/../../public/dictionary.db.gz",
     "exe_dir/../../../public/dictionary.db.gz" >>

BundledIds == { DocumentedOrder[k] : k \in 1..3 }
ExeRelative == { DocumentedOrder[k] : k \in 4..6 }

\* The candidates the call in slot c looked up, in the order it did.
Lookups(c) ==
  LET o == SelectSeq(ops[c], LAMBDA x : x[1] \in {"asset_get", "exists"}
                                         /\ x[2] # DbPath)
  IN  [ k \in 1..Len(o) |-> o[k][2] ]

\* The candidate at p, bundled or on the filesystem.
Candidate(p) == IF p \in BundledIds THEN bundle[p] ELSE disk[p]

\* The number of lines of lg that report a failed read.
ReadErrors(lg) ==
  Cardinality({ k \in 1..Len(lg) : lg[k][1] = "[RUST] Error reading file:" })

\* C4: the candidates are looked up in the documented order; the filesystem
\* candidates only when every bundled asset failed to resolve; the search
\* stops at the first candidate that resolves (every candidate looked up
\* before it is missing or, on the filesystem, failed to be read), nothing
\* after it is looked up or read, and the bytes that are decompressed and
\* written are those of that candidate.
C4_FirstMatchWins ==
  \A c \in Calls :
    (PastDataDir(c) /\ ~exists[c]) =>
      LET L == Lookups(c)
          n == Len(L)
          m == IF asset_bytes[c].some THEN n - 1 ELSE n
      IN  /\ n <= Len(DocumentedOrder)
          /\ \A k \in 1..n : L[k] = DocumentedOrder[k]
          /\ (\E k \in 1..n : L[k] \in ExeRelative) =>
               (\A p \in BundledIds : ~bundle[p].exists)
          /\ \A k \in 1..m : L[k] \in BundledIds => ~bundle[L[k]].exists
          /\ ReadErrors(logs[c]) =
               Cardinality({ k \in 1..m : L[k] \in ExeRelative
                                           /\ disk[L[k]].exists })
          /\ \A k \in 1..Len(ops[c]) :
               ops[c][k][1] = "read" =>
                 (\E j \in 1..n : L[j] = ops[c][k][2] /\ disk[L[j]].exists)
          /\ asset_bytes[c].some =>
               /\ n > 0
               /\ Candidate(L[n]).exists
               /\ asset_bytes[c].bytes = Candidate(L[n]).data
               /\ call_no[c] = ncalls =>
                    \A k \in 1..Len(disk[DbPath].data) :
                      disk[DbPath].data[k][1] = L[n]

\* A call decompressed the second executable-relative file although the third
\* exists too, the first having failed to be read.
C4_Witness ==
  \E c \in Calls :
    /\ Returned(c) /\ ~exists[c] /\ IsOkResult(result[c])
    /\ disk[DocumentedOrder[4]].exists
    /\ disk[DocumentedOrder[6]].exists
    /\ asset_bytes[c].some
    /\ asset_bytes[c].bytes = disk[DocumentedOrder[5]].data
    /\ Len(disk[DbPath].data) = PayloadLen

\* ---------------------------------------------------------------------- C5
\* The whole trace of the call in slot c is delivered to its caller: as the
\* logs of the Ok result, or embedded in the error.
TraceDelivered(c) ==
  IF IsOkResult(result[c])
    THEN result[c].info.logs = logs[c]
    ELSE result[c].err[1] = "LOGS:" /\ result[c].err[2] = logs[c]

\* C5: for every outcome of a call that got past the resolution of the data
\* directory, the trace accumulated so far is delivered to the caller (in the
\* Ok result or embedded in the error) and every line of it is printed.
C5_TraceAlwaysDelivered ==
  \A c \in Calls :
    (Returned(c) /\ PastDataDir(c)) =>
      /\ TraceDelivered(c)
      /\ printed[c] = logs[c]

\* ---------------------------------------------------------------------- C6
\* C6: a call changes the persistent state in at most one way: every create
\* and write of a call is of the destination path, a call creates at most one
\* file, only a call in the not-yet-present branch changes the filesystem, and
\* no step changes a candidate (an executable-relative file or a bundled
\* asset) or any file other than the destination.
C6_OnlyDestinationWritten ==
  /\ [](\A c \in Calls :
          /\ \A k \in 1..Len(ops[c]) :
               ops[c][k][1] \in WriteKinds =>
                 ops[c][k][2] = "app_data_dir/dictionary.db"
          /\ Len(OpsOf(c, {"create"})) <= 1
          /\ exists[c] => OpsOf(c, WriteKinds) = <<>>)
  /\ [][ /\ bundle' = bundle
         /\ \A p \in DOMAIN disk :
              p # "app_data_dir/dictionary.db" => disk'[p] = disk[p]
         /\ disk' # disk =>
              \E c \in Calls : pc[c] \in {"create", "copy"} /\ ~exists[c]
       ]_vars

\* A call has created and written the destination file while an executable-
\* relative candidate exists.
C6_Witness ==
  \E c \in Calls :
    /\ Returned(c) /\ ~exists[c] /\ IsOkResult(result[c])
    /\ Len(OpsOf(c, {"create"})) = 1
    /\ Len(OpsOf(c, {"write"})) = PayloadLen
    /\ \E p \in FsPaths : disk[p].exists

\* ---------------------------------------------------------------------- C7
\* C7: the destination file, once present, never becomes absent again, and it
\* is present only through a decompression that completed: after a call that
\* failed, with no decompression ever completed, the file is absent.
C7_PresentOnlyBySuccess ==
  /\ [][disk[DbPath].exists => disk'[DbPath].exists]_vars
  /\ [](\A c \in Calls :
          (LatestReturned(c) /\ IsErrResult(result[c]) /\ ~decompressed) =>
            ~disk[DbPath].exists)

\* ---------------------------------------------------------------------- C8
\* The call in slot c is in the materialize branch, between the existence
\* check that found the file absent and its return.
Materializing(c) ==
  pc[c] \in {"assets", "fs", "resolve", "create", "copy"} /\ ~exists[c]

\* C8: overlapping calls are not coordinated.  A call whose existence check
\* finds the file absent enters the materialize branch whatever the other
\* calls are doing, and its File::create leaves the destination file empty
\* whatever another call has written to it.
C8_Uncoordinated ==
  [][ \A c \in Calls :
        /\ (pc[c] = "check" /\ pc'[c] # "check" /\ ~disk[DbPath].exists) =>
             pc'[c] = "assets"
        /\ (pc[c] = "create" /\ pc'[c] = "copy") =>
             disk'[DbPath] = [exists |-> TRUE, data |-> <<>>]
    ]_vars

\* Two calls passed the existence check while the file was absent and both
\* created the file; one has returned Ok while the other is still writing, and
\* the file does not hold the decompressed payload.
C8_Witness ==
  \E c, d \in Calls :
    /\ c # d
    /\ ~exists[c] /\ ~exists[d]
    /\ Returned(c) /\ IsOkResult(result[c])
    /\ pc[d] = "copy"
    /\ Len(OpsOf(c, {"create"})) = 1
    /\ Len(OpsOf(d, {"create"})) = 1
    /\ disk[DbPath].exists
    /\ Len(disk[DbPath].data) < PayloadLen

\* ---------------------------------------------------------------------- C9
\* The call in slot c logged a failed read of a candidate file.
ReadFailed(c) == ReadErrors(logs[c]) > 0

\* The last operation of the call in slot c.
LastOp(c) == ops[c][Len(ops[c])]

\* C9 (as claimed): a step that fails (here: the read of a candidate file)
\* makes the call return an error at that step, with no further lookup, read
\* or write.
C9_EveryFailureAborts ==
  \A c \in Calls :
    (Returned(c) /\ ReadFailed(c)) =>
      /\ IsErrResult(result[c])
      /\ LastOp(c)[1] = "read"

\* C9 (amended): a failure to resolve the data directory, to create the
\* destination file or to decompress makes the call return an error at that
\* step: nothing is looked up, read or written after it, and nothing is
\* retried.  A failed read of an executable-relative candidate does not abort:
\* it is logged and the search goes on with the next candidate.
C9_FailureAbortsExceptRead ==
  \A c \in Calls :
    /\ (call_no[c] > 0 /\ ~data_dir) =>
         (Returned(c) /\ IsErrResult(result[c]) /\ ops[c] = <<>>
          /\ result[c].err[1] = "Failed to get app data dir:")
    /\ (\E k \in 1..Len(logs[c]) :
          logs[c][k][1] = "[RUST ERROR] Failed to create DB file:") =>
         /\ Returned(c) /\ IsErrResult(result[c])
         /\ result[c].err[1] = "Failed to create DB file:"
         /\ logs[c][Len(logs[c])][1] = "[RUST ERROR] Failed to create DB file:"
         /\ OpsOf(c, WriteKinds) = <<>>
    /\ (\E k \in 1..Len(logs[c]) :
          logs[c][k][1] = "[RUST ERROR] Failed to decompress:") =>
         /\ Returned(c) /\ IsErrResult(result[c])
         /\ result[c].err[1] = "Failed to decompress DB:"
         /\ logs[c][Len(logs[c])][1] = "[RUST ERROR] Failed to decompress:"
         /\ Len(OpsOf(c, {"create"})) = 1
         /\ LastOp(c)[1] \in WriteKinds
    /\ (Returned(c) /\ IsErrResult(result[c]) /\ PastDataDir(c)) =>
         logs[c][Len(logs[c])][1] \in
           { "[RUST ERROR] Failed to create DB file:",
             "[RUST ERROR] Failed to decompress:",
             "[RUST ERROR] dictionary.db.gz not found in any location" }
    /\ (ReadFailed(c) /\ pc[c] # "fs") =>
         \/ Len(Lookups(c)) = Len(DocumentedOrder)
         \/ asset_bytes[c].some

\* A call whose read of the first executable-relative file failed went on to
\* read the second and returned Ok.
C9_Witness ==
  \E c \in Calls :
    /\ Returned(c) /\ ReadFailed(c) /\ IsOkResult(result[c])
    /\ asset_bytes[c].bytes = disk[DocumentedOrder[5]].data

\* --------------------------------------------------------------------- C10
\* C10: a failed decompression leaves the created file on disk, and from then
\* on (invocations one after another) no step changes the filesystem, no call
\* is in the materialize branch, and every call that returns returns Ok with
\* exists = true: the file is never repaired.
C10_NeverRepaired ==
  /\ [](copy_failed => disk[DbPath].exists)
  /\ [][ copy_failed =>
           /\ disk' = disk
           /\ \A c \in Calls :
                /\ pc'[c] \in {"idle", "check", "finish"}
                /\ (pc[c] # "idle" /\ pc'[c] = "idle") =>
                     /\ exists[c]
                     /\ result'[c].tag = "Ok"
                     /\ result'[c].info.exists = TRUE
                     /\ OpsOf(c, WriteKinds \cup {"read", "asset_get"}) = <<>>
       ]_vars

\* After a failed decompression a later call has returned Ok from the fast
\* path although the file does not hold the decompressed payload.
C10_Witness ==
  /\ copy_failed
  /\ ~decompressed
  /\ Len(disk[DbPath].data) < PayloadLen
  /\ \E c \in Calls :
       /\ Returned(c) /\ exists[c] /\ IsOkResult(result[c])
       /\ result[c].info.exists = TRUE

====
